---- MODULE Spec2Model ----
(***************************************************************************)
(* A model of the websocket hub of services/websocket/ws.go: the Hub.Run   *)
(* control loop with its three intake channels, the per-connection         *)
(* readPump / writePump goroutines, the ServeWs handler that creates a     *)
(* connection, and external callers of Hub.Broadcast; and of main.go's     *)
(* broadcastAPI handler.  NewHub with its option defaults, the clock with  *)
(* the read deadline, and the administrative endpoint are actions of the   *)
(* specifications that need them.                                          *)
(*                                                                         *)
(* Goroutines are interleaved at the granularity of their channel and      *)
(* transport operations: the hub's per-connection backpressure sequence    *)
(* (try send, drop oldest, retry) is three separate steps, because a       *)
(* writePump may dequeue from c.send between any two of them.              *)
(*                                                                         *)
(* Payloads are numbered 1, 2, 3, ... in the order in which they are       *)
(* accepted into the hub's broadcast channel.                              *)
(***************************************************************************)
EXTENDS Integers, Sequences, FiniteSets, TLC

\* ---------------------------------------------------------------- bounds
\* Number of websocket connections that ever arrive at ServeWs.
NumClients == 2
\* Total number of payloads ever submitted to the broadcast channel.
MaxMsgs == 3
\* The same two bounds for the specification with fairness.
FairClients == 1
FairMsgs == 3
\* Payloads in the specification with further unregister senders.
UnregMsgs == 3
\* Unregister events sent by senders other than a readPump.
MaxStrays == 1
\* h.opts.SendCap, the capacity of every c.send (positive after
\* withDefaults); the default 128 is scaled down.
SendCap == 2
\* Options.MaxMessageSize passed to NewHub (main passes 8192), scaled down;
\* peers send frames of 1 .. MaxMessageSize + 1 bytes.
MaxMessageSize == 1
\* Requests that ever arrive at the administrative endpoint, and the
\* connections and other payloads in the specification with that endpoint.
MaxRequests == 2
ApiClients == 1
ApiMsgs == 2
\* The capacity of h.broadcast (256) scaled down, and the payloads submitted
\* by peers and other callers, in the specification of a full broadcast
\* channel.
IntakeCap == 1
IntakeMsgs == 1
\* Options fields passed to NewHub range over -1 .. MaxOpt (and nil options);
\* payloads submitted in the specification that starts before NewHub.
MaxOpt == 2
OptsMsgs == 3
\* SendCap and the payloads submitted in the specification in which peers
\* mark their frames.
RelaySendCap == 1
RelayMsgs == 2
\* Clock ticks that ever elapse, and the payloads submitted by peers and
\* other callers in the specification with time.
MaxTicks == 3
TimeMsgs == 3
\* pongWait (60 s) in clock ticks, scaled down.
PongWait == 2

\* ------------------------------------------------------ program constants
\* make(chan []byte, 256)
BroadcastCap == 256

\* withDefaults: o.SendCap = 128, o.MaxMessageSize = 8192
DefaultSendCap == 128
DefaultMaxMessageSize == 8192

Clients == 1..NumClients
Requests == 1..MaxRequests
NoMsg == 0
NoClient == 0
\* A nil *Options.
NilOptions == [SendCap |-> -1, MaxMessageSize |-> -1, nil |-> TRUE]
\* No request body yet / no message in readPump's hands / no snapshot.
NoBody == [json |-> FALSE, obj |-> {}]
NoFrame == [kind |-> "none", peer |-> 0, seq |-> 0, size |-> 0, fields |-> <<>>]
NoSnap == [q |-> <<>>, deqLen |-> 0, c |-> NoClient]

VARIABLES
    clients,     \* h.clients: the live set (keys of the map)
    broadcast,   \* h.broadcast: buffered channel, a FIFO of payloads
    hubPc,       \* Hub.Run: "select" | "range" | "drop" | "retry"
                 \* ("new": NewHub has not been called yet)
    hubMsg,      \* msg of the broadcast case being handled
    hubTodo,     \* keys of h.clients the range loop has not visited yet
    hubCur,      \* c of the current range iteration inside the default branch
    send,        \* c.send: buffered channel contents
    closes,      \* number of close(c.send) calls made
    panicked,    \* a send on / close of a closed channel happened
    swPc,        \* ServeWs(c): "idle" | "register" | "spawn" | "done" | "rejected"
    rdPc,        \* readPump: "off" | "start" | "read" | "forward" | "unreg" | "close" | "done"
    wrPc,        \* writePump: "off" | "select" | "write" | "done"
    wrMsg,       \* message the writePump has dequeued and is writing
    connClosed,  \* c.conn.Close() has been called
    \* ---- environment
    arrivals,    \* websocket requests that may still arrive at ServeWs
    budget,      \* payloads that peers and API callers may still submit
    strays,      \* unregister events that senders other than a readPump may still send
    \* ---- history (observation only)
    accepted,    \* number of payloads accepted into h.broadcast so far
    processed,   \* payloads received by Hub.Run from h.broadcast, in order
    liveAt,      \* liveAt[i]: h.clients when Hub.Run received processed[i]
    enq,         \* enq[c]: payloads the hub enqueued on c.send, in order
    dropped,     \* dropped[c]: payloads discarded from c.send by the hub
    deq,         \* deq[c]: payloads the writePump dequeued, in order
    attempts,    \* attempts[c]: data frames handed to WriteMessage, in order
    written,     \* written[c]: data frames written successfully, in order
    closeFrame,  \* a close frame was handed to WriteMessage
    failed,      \* the transport reported a read or write error of its own
    unregSent,   \* number of Unregister(c) events accepted by the hub
    closedBy,    \* who called close(c.send): sequence of "unregister" | "evict"
    connClosers, \* which loops called c.conn.Close()
    regOffer,    \* while Register(c) is on offer: the newest payload that was
                 \* pending in h.broadcast when the offer began (0: none)
    unregOffer,  \* the same while the Unregister(c) of c's readPump is on offer
    \* ---- configuration
    optsIn,      \* the argument of NewHub: "nil" or an Options record
    opts,        \* h.opts
    bcastCap,    \* cap(h.broadcast)
    marking,     \* whether each peer marks the frames it sends with its own
                 \* identity and a running number (otherwise all send the
                 \* same bytes)
    \* ---- time
    now,         \* time.Now(), in clock ticks
    deadline,    \* deadline[c]: the read deadline set on c.conn
    ponged,      \* history: the pong handler of c has run
    timedOut,    \* history: ReadMessage of c returned on the read deadline
    \* ---- administrative endpoint
    apiPc,       \* broadcastAPI(r): "new" | "broadcast" | "ok" | "bad"
    apiReq,      \* the request body of r
    apiPayload,  \* payload built by r
    apiCalls,    \* history: calls of Hub.Broadcast made by r
    \* ---- payload contents
    rdMsg,       \* message returned by ReadMessage, held by readPump
    content,     \* content[p]: the bytes of payload number p
    rejected,    \* history: size of the frame on which c's ReadMessage
                 \* returned the read-limit error (0: none)
    hubSnap      \* history: c.send and Len(deq[c]) when the hub found c.send
                 \* full in the iteration in progress

hubVars == <<clients, broadcast, hubPc, hubMsg, hubTodo, hubCur>>
chanVars == <<send, closes, panicked>>
connVars == <<swPc, rdPc, wrPc, wrMsg, connClosed>>
histVars == <<accepted, processed, liveAt, enq, dropped, deq, attempts,
              written, closeFrame, failed, unregSent, closedBy, connClosers,
              regOffer, unregOffer>>
envVars == <<arrivals, budget, strays>>
cfgVars == <<optsIn, opts, bcastCap, marking>>
timeVars == <<now, deadline, ponged, timedOut>>
apiVars == <<apiPc, apiReq, apiPayload, apiCalls>>
frameVars == <<rdMsg, content, rejected>>
vars == <<hubVars, chanVars, connVars, envVars, histVars,
          cfgVars, timeVars, apiVars, frameVars, hubSnap>>

\* ---------------------------------------------------------------- helpers
Range(s) == {s[i] : i \in 1..Len(s)}

\* A channel is closed once close() was called on it.
IsClosed(c) == closes[c] > 0

\* c.send <- msg on a buffered channel appends at the tail.
EnqueueFront(q, m) == <<m>> \o q
Enqueue(q, m) == Append(q, m)

\* The send case of a select is ready when the buffer has room; every c.send
\* is made with capacity h.opts.SendCap.
HasRoom(q) == Len(q) < opts.SendCap

\* if h.clients[c]
InLiveSetAlways(c) == TRUE
InLiveSet(c) == c \in clients

\* msg := <-h.broadcast takes the oldest pending payload.
NextBroadcastNewest(ch) == ch[Len(ch)]
NextBroadcast(ch) == Head(ch)

\* The channel without the payload just received (payloads are distinct).
WithoutPayload(ch, p) == SelectSeq(ch, LAMBDA x : x # p)

\* The newest payload pending in h.broadcast (0: the channel is empty).
NewestPending == IF broadcast = <<>> THEN NoMsg ELSE broadcast[Len(broadcast)]

\* Where Hub.Run goes after finishing one iteration of the range loop.
AfterIterationBreak(todo) == "select"
AfterIteration(todo) == IF todo = {} THEN "select" ELSE "range"

\* Data frames a peer may send, by size in bytes.
FrameSizes == 1..(MaxMessageSize + 1)

\* A frame of n bytes is over the read limit, SetReadLimit(MaxMessageSize).
OverLimitAtLimit(n) == n >= opts.MaxMessageSize
OverLimit(n) == n > opts.MaxMessageSize

\* The number of messages connection c has placed on the broadcast channel.
Forwarded(c) == Cardinality({p \in 1..Len(content) : content[p].peer = c})

\* The bytes of the data frame of n bytes that the peer of connection c sends
\* next: marked with c and the frame's number when peers mark their frames.
Frame(c, n) ==
    [kind |-> "bytes", peer |-> IF marking THEN c ELSE 0,
     seq |-> IF marking THEN Forwarded(c) + 1 ELSE 0,
     size |-> n, fields |-> <<>>]

\* The bytes passed to Hub.Broadcast by a caller outside this repository.
OpaqueBytes == [kind |-> "bytes", peer |-> 0, seq |-> 0, size |-> 1, fields |-> <<>>]

\* time.Now().Format(time.RFC3339)
FormatRFC3339(t) == <<"RFC3339", t>>

\* json.Marshal of a map writes the keys in sorted order.
EnvelopeKeys == <<"message", "time", "type">>
Marshal(m) == [i \in 1..Len(EnvelopeKeys) |-> <<EnvelopeKeys[i], m[EnvelopeKeys[i]]>>]

\* The payload broadcastAPI builds for req.Message at time t.
Envelope(msg, t) ==
    [kind |-> "json", peer |-> 0, seq |-> 0, size |-> 0,
     fields |-> Marshal([type |-> "server_broadcast", message |-> msg,
                         time |-> FormatRFC3339(t)])]

\* Request bodies: not JSON, or a JSON object as a set of <<key, value>>.
Bodies ==
    { [json |-> FALSE, obj |-> {}],
      [json |-> TRUE, obj |-> {}],
      [json |-> TRUE, obj |-> {<<"message", "">>}],
      [json |-> TRUE, obj |-> {<<"text", "hi">>}],
      [json |-> TRUE, obj |-> {<<"message", "hi">>}],
      [json |-> TRUE, obj |-> {<<"message", "yo">>, <<"type", "x">>}] }

\* c.ShouldBindJSON(&req) into broadcastReq: req.Message is the value of the
\* "message" key, "" when the key is absent (other keys are ignored).
BoundMessage(body) ==
    IF \E kv \in body.obj : kv[1] = "message"
    THEN (CHOOSE kv \in body.obj : kv[1] = "message")[2]
    ELSE ""

\* ShouldBindJSON fails on a body that is not JSON and, by binding:"required",
\* on a Message that is the zero value.
BindFailsOnSyntax(body) == ~body.json
BindFails(body) == ~body.json \/ BoundMessage(body) = ""

\* The same with the tests o.SendCap < 0 and o.MaxMessageSize < 0.
withDefaultsNegative(o) ==
    [SendCap |-> IF o.SendCap < 0 THEN DefaultSendCap ELSE o.SendCap,
     MaxMessageSize |-> IF o.MaxMessageSize < 0 THEN DefaultMaxMessageSize
                        ELSE o.MaxMessageSize]

\* func (o *Options) withDefaults()
withDefaults(o) ==
    [SendCap |-> IF o.SendCap <= 0 THEN DefaultSendCap ELSE o.SendCap,
     MaxMessageSize |-> IF o.MaxMessageSize <= 0 THEN DefaultMaxMessageSize
                        ELSE o.MaxMessageSize]

\* NewHub: o := Options{}; if opts != nil { o = *opts }; o.withDefaults()
ZeroOptions == [SendCap |-> 0, MaxMessageSize |-> 0]
NewHubOpts(in) == withDefaults(IF in = NilOptions THEN ZeroOptions ELSE in)

\* The options main passes to NewHub.
MainOpts == [SendCap |-> SendCap, MaxMessageSize |-> MaxMessageSize]

\* ------------------------------------------------------------------- Init
InitProgram ==
    /\ clients = {}
    /\ broadcast = <<>>
    /\ hubMsg = NoMsg
    /\ hubTodo = {}
    /\ hubCur = NoClient
    /\ send = [c \in Clients |-> <<>>]
    /\ closes = [c \in Clients |-> 0]
    /\ panicked = FALSE
    /\ swPc = [c \in Clients |-> "idle"]
    /\ rdPc = [c \in Clients |-> "off"]
    /\ wrPc = [c \in Clients |-> "off"]
    /\ wrMsg = [c \in Clients |-> NoMsg]
    /\ connClosed = [c \in Clients |-> FALSE]
    /\ accepted = 0
    /\ processed = <<>>
    /\ liveAt = <<>>
    /\ enq = [c \in Clients |-> <<>>]
    /\ dropped = [c \in Clients |-> {}]
    /\ deq = [c \in Clients |-> <<>>]
    /\ attempts = [c \in Clients |-> <<>>]
    /\ written = [c \in Clients |-> <<>>]
    /\ closeFrame = [c \in Clients |-> FALSE]
    /\ failed = [c \in Clients |-> FALSE]
    /\ unregSent = [c \in Clients |-> 0]
    /\ closedBy = [c \in Clients |-> <<>>]
    /\ connClosers = [c \in Clients |-> {}]
    /\ regOffer = [c \in Clients |-> 0]
    /\ unregOffer = [c \in Clients |-> 0]
    /\ now = 0
    /\ deadline = [c \in Clients |-> 0]
    /\ ponged = [c \in Clients |-> FALSE]
    /\ timedOut = [c \in Clients |-> FALSE]
    /\ apiPc = [r \in Requests |-> "new"]
    /\ apiReq = [r \in Requests |-> NoBody]
    /\ apiPayload = [r \in Requests |-> <<>>]
    /\ apiCalls = [r \in Requests |-> 0]
    /\ rdMsg = [c \in Clients |-> NoFrame]
    /\ content = <<>>
    /\ rejected = [c \in Clients |-> 0]
    /\ hubSnap = NoSnap

\* hub := websocket.NewHub(in) has returned and go hub.Run() has started;
\* cap is the capacity of h.broadcast, mk whether peers mark their frames.
Constructed(in, cap, mk) ==
    /\ hubPc = "select"
    /\ optsIn = in
    /\ opts = NewHubOpts(in)
    /\ bcastCap = cap
    /\ marking = mk

InitConfig == Constructed(MainOpts, BroadcastCap, FALSE)

Init ==
    /\ InitProgram
    /\ InitConfig
    /\ arrivals = NumClients
    /\ budget = MaxMsgs
    /\ strays = 0

\* -------------------------------------------------------------- NewHub
\* NewHub(optsIn) followed by go hub.Run(): h.opts is the argument after
\* withDefaults, h.broadcast has capacity 256, Hub.Run waits in its select.
NewHub ==
    /\ hubPc = "new"
    /\ hubPc' = "select"
    /\ opts' = NewHubOpts(optsIn)
    /\ bcastCap' = BroadcastCap
    /\ UNCHANGED <<clients, broadcast, hubMsg, hubTodo, hubCur, chanVars, connVars,
                   envVars, histVars, optsIn, marking, timeVars, apiVars,
                   frameVars, hubSnap>>

\* ------------------------------------------------------------ Hub.Run
\* case c := <-h.register: h.clients[c] = true
\* The channel is unbuffered: the receive completes ServeWs's send.
HubRegister(c) ==
    /\ ~panicked
    /\ hubPc = "select"
    /\ swPc[c] = "register"
    /\ clients' = clients \cup {c}
    /\ swPc' = [swPc EXCEPT ![c] = "spawn"]
    /\ regOffer' = [regOffer EXCEPT ![c] = NoMsg]
    /\ UNCHANGED <<envVars, broadcast, hubPc, hubMsg, hubTodo, hubCur, chanVars,
                   rdPc, wrPc, wrMsg, connClosed,
                   accepted, processed, liveAt, enq, dropped, deq, attempts,
                   written, closeFrame, failed, unregSent, closedBy, connClosers,
                   unregOffer>>
    /\ UNCHANGED <<cfgVars, timeVars, apiVars, frameVars, hubSnap>>

\* The same body without delete(h.clients, c).
UnregisterCaseKeepsEntry(c) ==
    /\ unregSent' = [unregSent EXCEPT ![c] = @ + 1]
    /\ IF InLiveSet(c)
       THEN /\ clients' = clients
            /\ closes' = [closes EXCEPT ![c] = @ + 1]
            /\ panicked' = IsClosed(c)
            /\ closedBy' = [closedBy EXCEPT ![c] = Append(@, "unregister")]
       ELSE UNCHANGED <<clients, closes, panicked, closedBy>>

\* The body of the unregister case:
\*   if h.clients[c] { delete(h.clients, c); close(c.send) }
UnregisterCase(c) ==
    /\ unregSent' = [unregSent EXCEPT ![c] = @ + 1]
    /\ IF InLiveSet(c)
       THEN /\ clients' = clients \ {c}
            /\ closes' = [closes EXCEPT ![c] = @ + 1]
            /\ panicked' = IsClosed(c)
            /\ closedBy' = [closedBy EXCEPT ![c] = Append(@, "unregister")]
       ELSE UNCHANGED <<clients, closes, panicked, closedBy>>

\* case c := <-h.unregister, the event coming from c's readPump.
\* The channel is unbuffered: the receive completes readPump's deferred send.
HubUnregister(c) ==
    /\ ~panicked
    /\ hubPc = "select"
    /\ rdPc[c] = "unreg"
    /\ rdPc' = [rdPc EXCEPT ![c] = "close"]
    /\ UnregisterCase(c)
    /\ unregOffer' = [unregOffer EXCEPT ![c] = NoMsg]
    /\ UNCHANGED <<envVars, broadcast, hubPc, hubMsg, hubTodo, hubCur, send,
                   swPc, wrPc, wrMsg, connClosed,
                   accepted, processed, liveAt, enq, dropped, deq,
                   attempts, written, closeFrame, failed, connClosers,
                   regOffer>>
    /\ UNCHANGED <<cfgVars, timeVars, apiVars, frameVars, hubSnap>>

\* case c := <-h.unregister, the event coming from any other sender on the
\* channel: Hub.Run accepts every *client value, whether it is in h.clients,
\* was removed before, or was never registered.
HubUnregisterAny(c) ==
    /\ ~panicked
    /\ hubPc = "select"
    /\ strays > 0
    /\ strays' = strays - 1
    /\ UnregisterCase(c)
    /\ UNCHANGED <<arrivals, budget, broadcast, hubPc, hubMsg, hubTodo, hubCur, send,
                   connVars,
                   accepted, processed, liveAt, enq, dropped, deq,
                   attempts, written, closeFrame, failed, connClosers,
                   regOffer, unregOffer>>
    /\ UNCHANGED <<cfgVars, timeVars, apiVars, frameVars, hubSnap>>

\* The same with a range loop that leaves out the connection the payload
\* came from.
HubRecvBroadcastSkipSender ==
    /\ ~panicked
    /\ hubPc = "select"
    /\ broadcast # <<>>
    /\ LET p == NextBroadcast(broadcast)
           todo == clients \ {content[p].peer} IN
        /\ broadcast' = WithoutPayload(broadcast, p)
        /\ hubMsg' = IF todo = {} THEN NoMsg ELSE p
        /\ processed' = Append(processed, p)
        /\ liveAt' = Append(liveAt, clients)
        /\ hubTodo' = todo
        /\ hubPc' = IF todo = {} THEN "select" ELSE "range"
    /\ UNCHANGED <<envVars, clients, hubCur, chanVars, connVars,
                   accepted, enq, dropped, deq, attempts, written, closeFrame,
                   failed, unregSent, closedBy, connClosers, regOffer, unregOffer>>
    /\ UNCHANGED <<cfgVars, timeVars, apiVars, frameVars, hubSnap>>

\* case msg := <-h.broadcast: for c := range h.clients { ... }
HubRecvBroadcast ==
    /\ ~panicked
    /\ hubPc = "select"
    /\ broadcast # <<>>
    /\ LET p == NextBroadcast(broadcast) IN
        /\ broadcast' = WithoutPayload(broadcast, p)
        /\ hubMsg' = IF clients = {} THEN NoMsg ELSE p
        /\ processed' = Append(processed, p)
        /\ liveAt' = Append(liveAt, clients)
    /\ hubTodo' = clients
    /\ hubPc' = IF clients = {} THEN "select" ELSE "range"
    /\ UNCHANGED <<envVars, clients, hubCur, chanVars, connVars,
                   accepted, enq, dropped, deq, attempts, written, closeFrame,
                   failed, unregSent, closedBy, connClosers, regOffer, unregOffer>>
    /\ UNCHANGED <<cfgVars, timeVars, apiVars, frameVars, hubSnap>>

\* The same iteration with a plain blocking send, c.send <- msg.
HubTrySendBlocking(c) ==
    /\ ~panicked
    /\ hubPc = "range"
    /\ c \in hubTodo
    /\ ~IsClosed(c)
    /\ HasRoom(send[c])
    /\ send' = [send EXCEPT ![c] = Enqueue(@, hubMsg)]
    /\ enq' = [enq EXCEPT ![c] = Append(@, hubMsg)]
    /\ hubTodo' = hubTodo \ {c}
    /\ hubPc' = AfterIteration(hubTodo \ {c})
    /\ hubMsg' = IF hubTodo \ {c} = {} THEN NoMsg ELSE hubMsg
    /\ UNCHANGED <<envVars, clients, broadcast, hubCur, closes, panicked, connVars,
                   accepted, processed, liveAt, dropped, deq, attempts,
                   written, closeFrame, failed, unregSent, closedBy, connClosers,
                   regOffer, unregOffer>>
    /\ UNCHANGED <<cfgVars, timeVars, apiVars, frameVars, hubSnap>>

\* One iteration of the range loop, first select:
\*   select { case c.send <- msg: ; default: ... }
HubTrySend(c) ==
    /\ ~panicked
    /\ hubPc = "range"
    /\ c \in hubTodo
    /\ IF IsClosed(c)
       THEN /\ panicked' = TRUE
            /\ UNCHANGED <<send, enq, hubTodo, hubCur, hubPc, hubMsg, hubSnap>>
       ELSE /\ panicked' = FALSE
            /\ IF HasRoom(send[c])
               THEN /\ send' = [send EXCEPT ![c] = Enqueue(@, hubMsg)]
                    /\ enq' = [enq EXCEPT ![c] = Append(@, hubMsg)]
                    /\ hubTodo' = hubTodo \ {c}
                    /\ hubPc' = AfterIteration(hubTodo \ {c})
                    /\ hubMsg' = IF hubTodo \ {c} = {} THEN NoMsg ELSE hubMsg
                    /\ hubCur' = NoClient
                    /\ UNCHANGED hubSnap
               ELSE /\ hubCur' = c
                    /\ hubPc' = "drop"
                    /\ hubSnap' = [q |-> send[c], deqLen |-> Len(deq[c]), c |-> c]
                    /\ UNCHANGED <<send, enq, hubTodo, hubMsg>>
    /\ UNCHANGED <<envVars, clients, broadcast, closes, connVars,
                   accepted, processed, liveAt, dropped, deq, attempts,
                   written, closeFrame, failed, unregSent, closedBy, connClosers,
                   regOffer, unregOffer>>
    /\ UNCHANGED <<cfgVars, timeVars, apiVars, frameVars>>

\* The same discarding the newest queued payload.
HubDropNewest ==
    /\ ~panicked
    /\ hubPc = "drop"
    /\ IF send[hubCur] # <<>>
       THEN /\ send' = [send EXCEPT ![hubCur] = SubSeq(@, 1, Len(@) - 1)]
            /\ dropped' = [dropped EXCEPT ![hubCur] =
                               @ \cup {send[hubCur][Len(send[hubCur])]}]
       ELSE UNCHANGED <<send, dropped>>
    /\ hubPc' = "retry"
    /\ UNCHANGED <<envVars, clients, broadcast, hubMsg, hubTodo, hubCur, closes, panicked,
                   connVars,
                   accepted, processed, liveAt, enq, deq, attempts,
                   written, closeFrame, failed, unregSent, closedBy, connClosers,
                   regOffer, unregOffer>>
    /\ UNCHANGED <<cfgVars, timeVars, apiVars, frameVars, hubSnap>>

\* default branch, second select: select { case <-c.send: ; default: }
HubDropOldest ==
    /\ ~panicked
    /\ hubPc = "drop"
    /\ IF send[hubCur] # <<>>
       THEN /\ send' = [send EXCEPT ![hubCur] = Tail(@)]
            /\ dropped' = [dropped EXCEPT ![hubCur] = @ \cup {Head(send[hubCur])}]
       ELSE UNCHANGED <<send, dropped>>
    /\ hubPc' = "retry"
    /\ UNCHANGED <<envVars, clients, broadcast, hubMsg, hubTodo, hubCur, closes, panicked,
                   connVars,
                   accepted, processed, liveAt, enq, deq, attempts,
                   written, closeFrame, failed, unregSent, closedBy, connClosers,
                   regOffer, unregOffer>>
    /\ UNCHANGED <<cfgVars, timeVars, apiVars, frameVars, hubSnap>>

\* default branch, third select:
\*   select { case c.send <- msg: ; default: close(c.send); delete(h.clients, c) }
HubRetry ==
    /\ ~panicked
    /\ hubPc = "retry"
    /\ IF HasRoom(send[hubCur])
       THEN /\ send' = [send EXCEPT ![hubCur] = Enqueue(@, hubMsg)]
            /\ enq' = [enq EXCEPT ![hubCur] = Append(@, hubMsg)]
            /\ UNCHANGED <<clients, closes, panicked, closedBy>>
       ELSE /\ closes' = [closes EXCEPT ![hubCur] = @ + 1]
            /\ panicked' = IsClosed(hubCur)
            /\ closedBy' = [closedBy EXCEPT ![hubCur] = Append(@, "evict")]
            /\ clients' = clients \ {hubCur}
            /\ UNCHANGED <<send, enq>>
    /\ hubTodo' = hubTodo \ {hubCur}
    /\ hubPc' = AfterIteration(hubTodo \ {hubCur})
    /\ hubMsg' = IF hubTodo \ {hubCur} = {} THEN NoMsg ELSE hubMsg
    /\ hubCur' = NoClient
    /\ UNCHANGED <<envVars, broadcast, connVars,
                   accepted, processed, liveAt, dropped, deq, attempts,
                   written, closeFrame, failed, unregSent, connClosers,
                   regOffer, unregOffer>>
    /\ hubSnap' = NoSnap
    /\ UNCHANGED <<cfgVars, timeVars, apiVars, frameVars>>

\* ------------------------------------------------------ Hub.Broadcast
\* h.broadcast <- b: completes when the buffer has room, blocks otherwise.
\* A caller of the package other than the two in this repository.
HubBroadcast ==
    /\ ~panicked
    /\ hubPc # "new"
    /\ budget > 0
    /\ budget' = budget - 1
    /\ Len(broadcast) < bcastCap
    /\ broadcast' = Append(broadcast, accepted + 1)
    /\ accepted' = accepted + 1
    /\ content' = Append(content, OpaqueBytes)
    /\ UNCHANGED <<clients, hubPc, hubMsg, hubTodo, hubCur, chanVars, connVars,
                   arrivals, strays,
                   processed, liveAt, enq, dropped, deq, attempts,
                   written, closeFrame, failed, unregSent, closedBy, connClosers,
                   regOffer, unregOffer>>
    /\ UNCHANGED <<cfgVars, timeVars, apiVars, rdMsg, rejected, hubSnap>>

\* ------------------------------------------------------------- ServeWs
\* The same with go cl.writePump(); go cl.readPump() before h.register <- cl.
ServeWsUpgradeSpawnFirst(c) ==
    /\ ~panicked
    /\ hubPc # "new"
    /\ swPc[c] = "idle"
    /\ \A d \in Clients : d < c => swPc[d] # "idle"
    /\ arrivals > 0
    /\ arrivals' = arrivals - 1
    /\ UNCHANGED <<budget, strays>>
    /\ swPc' = [swPc EXCEPT ![c] = "register"]
    /\ regOffer' = [regOffer EXCEPT ![c] = NewestPending]
    /\ wrPc' = [wrPc EXCEPT ![c] = "select"]
    /\ rdPc' = [rdPc EXCEPT ![c] = "start"]
    /\ UNCHANGED <<hubVars, chanVars, wrMsg, connClosed,
                   accepted, processed, liveAt, enq, dropped, deq,
                   attempts, written, closeFrame, failed, unregSent, closedBy,
                   connClosers, unregOffer>>
    /\ UNCHANGED <<cfgVars, timeVars, apiVars, frameVars, hubSnap>>

\* upgrader.Upgrade: on error ServeWs returns; otherwise the client is built
\* with an empty c.send and ServeWs reaches h.register <- cl.
\* Connections are numbered in the order in which they arrive.
ServeWsUpgrade(c) ==
    /\ ~panicked
    /\ hubPc # "new"
    /\ swPc[c] = "idle"
    /\ \A d \in Clients : d < c => swPc[d] # "idle"
    /\ arrivals > 0
    /\ arrivals' = arrivals - 1
    /\ UNCHANGED <<budget, strays>>
    /\ \E ok \in BOOLEAN :
        IF ok
        THEN /\ swPc' = [swPc EXCEPT ![c] = "register"]
             /\ regOffer' = [regOffer EXCEPT ![c] = NewestPending]
        ELSE /\ swPc' = [swPc EXCEPT ![c] = "rejected"]
             /\ UNCHANGED regOffer
    /\ UNCHANGED <<hubVars, chanVars, rdPc, wrPc, wrMsg, connClosed,
                   accepted, processed, liveAt, enq, dropped, deq,
                   attempts, written, closeFrame, failed, unregSent, closedBy,
                   connClosers, unregOffer>>
    /\ UNCHANGED <<cfgVars, timeVars, apiVars, frameVars, hubSnap>>

\* go cl.writePump(); go cl.readPump()  (after the register send returned)
ServeWsSpawn(c) ==
    /\ ~panicked
    /\ swPc[c] = "spawn"
    /\ swPc' = [swPc EXCEPT ![c] = "done"]
    /\ wrPc' = [wrPc EXCEPT ![c] = "select"]
    /\ rdPc' = [rdPc EXCEPT ![c] = "start"]
    /\ UNCHANGED <<envVars, hubVars, chanVars, wrMsg, connClosed, histVars>>
    /\ UNCHANGED <<cfgVars, timeVars, apiVars, frameVars, hubSnap>>

\* ------------------------------------------------------------ readPump
\* The same without a read deadline.
RdStartNoDeadline(c) ==
    /\ ~panicked
    /\ rdPc[c] = "start"
    /\ rdPc' = [rdPc EXCEPT ![c] = "read"]
    /\ deadline' = [deadline EXCEPT ![c] = now + PongWait + MaxTicks + 1]
    /\ UNCHANGED <<hubVars, chanVars, swPc, wrPc, wrMsg, connClosed, envVars,
                   histVars, cfgVars, now, ponged, timedOut, apiVars, frameVars,
                   hubSnap>>

\* SetReadLimit(MaxMessageSize); SetReadDeadline(time.Now().Add(pongWait));
\* SetPongHandler(...): the read loop starts.
RdStart(c) ==
    /\ ~panicked
    /\ rdPc[c] = "start"
    /\ rdPc' = [rdPc EXCEPT ![c] = "read"]
    /\ deadline' = [deadline EXCEPT ![c] = now + PongWait]
    /\ UNCHANGED <<hubVars, chanVars, swPc, wrPc, wrMsg, connClosed, envVars,
                   histVars, cfgVars, now, ponged, timedOut, apiVars, frameVars,
                   hubSnap>>

\* The pong handler, run inside ReadMessage when the peer's pong arrives
\* before the read deadline: SetReadDeadline(time.Now().Add(pongWait)).
RdPong(c) ==
    /\ ~panicked
    /\ rdPc[c] = "read"
    /\ ~connClosed[c]
    /\ now < deadline[c]
    /\ deadline' = [deadline EXCEPT ![c] = now + PongWait]
    /\ ponged' = [ponged EXCEPT ![c] = TRUE]
    /\ UNCHANGED <<hubVars, chanVars, connVars, envVars, histVars, cfgVars,
                   now, timedOut, apiVars, frameVars, hubSnap>>

\* c.conn.ReadMessage() returns a timeout error once the read deadline has
\* passed: break, and the deferred function reaches c.hub.unregister <- c.
RdReadTimeout(c) ==
    /\ ~panicked
    /\ rdPc[c] = "read"
    /\ now >= deadline[c]
    /\ rdPc' = [rdPc EXCEPT ![c] = "unreg"]
    /\ failed' = [failed EXCEPT ![c] = @ \/ ~connClosed[c]]
    /\ unregOffer' = [unregOffer EXCEPT ![c] = NewestPending]
    /\ timedOut' = [timedOut EXCEPT ![c] = TRUE]
    /\ UNCHANGED <<envVars, hubVars, chanVars, swPc, wrPc, wrMsg, connClosed,
                   accepted, processed, liveAt, enq, dropped, deq,
                   attempts, written, closeFrame, unregSent, closedBy,
                   connClosers, regOffer>>
    /\ UNCHANGED <<cfgVars, now, deadline, ponged, apiVars, frameVars, hubSnap>>

\* Time passes.
Tick ==
    /\ ~panicked
    /\ now < MaxTicks
    /\ now' = now + 1
    /\ UNCHANGED <<hubVars, chanVars, connVars, envVars, histVars, cfgVars,
                   deadline, ponged, timedOut, apiVars, frameVars, hubSnap>>

\* c.conn.ReadMessage() when the peer has sent a data frame of n bytes and
\* the read deadline has not passed: it returns the message, or an error
\* when n is over the limit set by SetReadLimit(h.opts.MaxMessageSize); the
\* error breaks the loop and the deferred function reaches
\* c.hub.unregister <- c.
RdReadMsg(c) ==
    /\ ~panicked
    /\ rdPc[c] = "read"
    /\ ~connClosed[c]
    /\ now < deadline[c]
    /\ budget > 0
    /\ budget' = budget - 1
    /\ \E n \in FrameSizes :
        IF ~OverLimit(n)
        THEN /\ rdMsg' = [rdMsg EXCEPT ![c] = Frame(c, n)]
             /\ rdPc' = [rdPc EXCEPT ![c] = "forward"]
             /\ UNCHANGED <<failed, unregOffer, rejected>>
        ELSE /\ rdPc' = [rdPc EXCEPT ![c] = "unreg"]
             /\ failed' = [failed EXCEPT ![c] = TRUE]
             /\ unregOffer' = [unregOffer EXCEPT ![c] = NewestPending]
             /\ rejected' = [rejected EXCEPT ![c] = n]
             /\ UNCHANGED rdMsg
    /\ UNCHANGED <<hubVars, chanVars, swPc, wrPc, wrMsg, connClosed, arrivals, strays,
                   accepted, processed, liveAt, enq, dropped, deq, attempts,
                   written, closeFrame, unregSent, closedBy, connClosers,
                   regOffer>>
    /\ UNCHANGED <<cfgVars, timeVars, apiVars, content, hubSnap>>

\* The same with the deferred calls in the other order: c.conn.Close()
\* first, then c.hub.unregister <- c.
RdReadErrCloseFirst(c) ==
    /\ ~panicked
    /\ rdPc[c] = "read"
    /\ rdPc' = [rdPc EXCEPT ![c] = "unreg"]
    /\ failed' = [failed EXCEPT ![c] = @ \/ ~connClosed[c]]
    /\ unregOffer' = [unregOffer EXCEPT ![c] = NewestPending]
    /\ connClosed' = [connClosed EXCEPT ![c] = TRUE]
    /\ connClosers' = [connClosers EXCEPT ![c] = @ \cup {"read"}]
    /\ UNCHANGED <<envVars, hubVars, chanVars, swPc, wrPc, wrMsg,
                   accepted, processed, liveAt, enq, dropped, deq,
                   attempts, written, closeFrame, unregSent, closedBy,
                   regOffer>>
    /\ UNCHANGED <<cfgVars, timeVars, apiVars, frameVars, hubSnap>>

\* c.conn.ReadMessage() returns an error (peer close, protocol error, network
\* failure, or the connection was closed locally):
\* break, and the deferred function reaches c.hub.unregister <- c.
RdReadErr(c) ==
    /\ ~panicked
    /\ rdPc[c] = "read"
    /\ rdPc' = [rdPc EXCEPT ![c] = "unreg"]
    /\ failed' = [failed EXCEPT ![c] = @ \/ ~connClosed[c]]
    /\ unregOffer' = [unregOffer EXCEPT ![c] = NewestPending]
    /\ UNCHANGED <<envVars, hubVars, chanVars, swPc, wrPc, wrMsg, connClosed,
                   accepted, processed, liveAt, enq, dropped, deq,
                   attempts, written, closeFrame, unregSent, closedBy,
                   connClosers, regOffer>>
    /\ UNCHANGED <<cfgVars, timeVars, apiVars, frameVars, hubSnap>>

\* The same send on a channel without a bound.
RdForwardUnbounded(c) ==
    /\ ~panicked
    /\ rdPc[c] = "forward"
    /\ broadcast' = Append(broadcast, accepted + 1)
    /\ accepted' = accepted + 1
    /\ rdPc' = [rdPc EXCEPT ![c] = "read"]
    /\ content' = Append(content, rdMsg[c])
    /\ rdMsg' = [rdMsg EXCEPT ![c] = NoFrame]
    /\ UNCHANGED <<envVars, clients, hubPc, hubMsg, hubTodo, hubCur, chanVars,
                   swPc, wrPc, wrMsg, connClosed,
                   processed, liveAt, enq, dropped, deq, attempts,
                   written, closeFrame, failed, unregSent, closedBy, connClosers,
                   regOffer, unregOffer>>
    /\ UNCHANGED <<cfgVars, timeVars, apiVars, rejected, hubSnap>>

\* c.hub.broadcast <- message
RdForward(c) ==
    /\ ~panicked
    /\ rdPc[c] = "forward"
    /\ Len(broadcast) < bcastCap
    /\ broadcast' = Append(broadcast, accepted + 1)
    /\ accepted' = accepted + 1
    /\ rdPc' = [rdPc EXCEPT ![c] = "read"]
    /\ UNCHANGED <<envVars, clients, hubPc, hubMsg, hubTodo, hubCur, chanVars,
                   swPc, wrPc, wrMsg, connClosed,
                   processed, liveAt, enq, dropped, deq, attempts,
                   written, closeFrame, failed, unregSent, closedBy, connClosers,
                   regOffer, unregOffer>>
    /\ content' = Append(content, rdMsg[c])
    /\ rdMsg' = [rdMsg EXCEPT ![c] = NoFrame]
    /\ UNCHANGED <<cfgVars, timeVars, apiVars, rejected, hubSnap>>

\* deferred c.conn.Close(), after the unregister send returned
RdClose(c) ==
    /\ ~panicked
    /\ rdPc[c] = "close"
    /\ rdPc' = [rdPc EXCEPT ![c] = "done"]
    /\ connClosed' = [connClosed EXCEPT ![c] = TRUE]
    /\ connClosers' = [connClosers EXCEPT ![c] = @ \cup {"read"}]
    /\ UNCHANGED <<envVars, hubVars, chanVars, swPc, wrPc, wrMsg,
                   accepted, processed, liveAt, enq, dropped, deq,
                   attempts, written, closeFrame, failed, unregSent, closedBy,
                   regOffer, unregOffer>>
    /\ UNCHANGED <<cfgVars, timeVars, apiVars, frameVars, hubSnap>>

\* ----------------------------------------------------------- writePump
\* The deferred function of writePump: ticker.Stop(); c.conn.Close()
\* It does not touch c.send.
WrExitNoClose(c) ==
    /\ wrPc' = [wrPc EXCEPT ![c] = "done"]
    /\ UNCHANGED <<connClosed, connClosers, closes, closedBy>>

WrExitClosesSend(c) ==
    /\ wrPc' = [wrPc EXCEPT ![c] = "done"]
    /\ connClosed' = [connClosed EXCEPT ![c] = TRUE]
    /\ connClosers' = [connClosers EXCEPT ![c] = @ \cup {"write"}]
    /\ closes' = [closes EXCEPT ![c] = @ + 1]
    /\ closedBy' = [closedBy EXCEPT ![c] = Append(@, "writePump")]

WrExit(c) ==
    /\ wrPc' = [wrPc EXCEPT ![c] = "done"]
    /\ connClosed' = [connClosed EXCEPT ![c] = TRUE]
    /\ connClosers' = [connClosers EXCEPT ![c] = @ \cup {"write"}]
    /\ UNCHANGED <<closes, closedBy>>

\* A receive that also takes every other queued payload into the same frame.
WrRecvCoalesce(c) ==
    /\ ~panicked
    /\ wrPc[c] = "select"
    /\ send[c] # <<>>
    /\ wrMsg' = [wrMsg EXCEPT ![c] = Head(send[c])]
    /\ send' = [send EXCEPT ![c] = <<>>]
    /\ deq' = [deq EXCEPT ![c] = @ \o send[c]]
    /\ wrPc' = [wrPc EXCEPT ![c] = "write"]
    /\ UNCHANGED <<closeFrame, connClosed, connClosers, closes, closedBy>>
    /\ UNCHANGED <<envVars, hubVars, panicked, swPc, rdPc,
                   accepted, processed, liveAt, enq, dropped,
                   attempts, written, failed, unregSent,
                   regOffer, unregOffer>>
    /\ UNCHANGED <<cfgVars, timeVars, apiVars, frameVars, hubSnap>>

\* case message, ok := <-c.send
\* A buffered payload is received even after close; !ok only when the channel
\* is closed and drained: then the close frame is written (result ignored)
\* and the loop returns.
WrRecv(c) ==
    /\ ~panicked
    /\ wrPc[c] = "select"
    /\ IF send[c] # <<>>
       THEN /\ wrMsg' = [wrMsg EXCEPT ![c] = Head(send[c])]
            /\ send' = [send EXCEPT ![c] = Tail(@)]
            /\ deq' = [deq EXCEPT ![c] = Append(@, Head(send[c]))]
            /\ wrPc' = [wrPc EXCEPT ![c] = "write"]
            /\ UNCHANGED <<closeFrame, connClosed, connClosers, closes, closedBy>>
       ELSE /\ IsClosed(c)
            /\ closeFrame' = [closeFrame EXCEPT ![c] = TRUE]
            /\ WrExit(c)
            /\ UNCHANGED <<wrMsg, send, deq>>
    /\ UNCHANGED <<envVars, hubVars, panicked, swPc, rdPc,
                   accepted, processed, liveAt, enq, dropped,
                   attempts, written, failed, unregSent,
                   regOffer, unregOffer>>
    /\ UNCHANGED <<cfgVars, timeVars, apiVars, frameVars, hubSnap>>

\* c.conn.WriteMessage(websocket.TextMessage, message): one frame per
\* message; an error returns from the loop.  A write on a connection that
\* was closed locally always fails.
WrWrite(c) ==
    /\ ~panicked
    /\ wrPc[c] = "write"
    /\ attempts' = [attempts EXCEPT ![c] = Append(@, wrMsg[c])]
    /\ wrMsg' = [wrMsg EXCEPT ![c] = NoMsg]
    /\ \E ok \in (IF connClosed[c] THEN {FALSE} ELSE BOOLEAN) :
        IF ok
        THEN /\ written' = [written EXCEPT ![c] = Append(@, wrMsg[c])]
             /\ wrPc' = [wrPc EXCEPT ![c] = "select"]
             /\ UNCHANGED <<connClosed, connClosers, failed, closes, closedBy>>
        ELSE /\ failed' = [failed EXCEPT ![c] = @ \/ ~connClosed[c]]
             /\ WrExit(c)
             /\ UNCHANGED written
    /\ UNCHANGED <<envVars, hubVars, send, panicked, swPc, rdPc,
                   accepted, processed, liveAt, enq, dropped, deq,
                   closeFrame, unregSent, regOffer, unregOffer>>
    /\ UNCHANGED <<cfgVars, timeVars, apiVars, frameVars, hubSnap>>

\* case <-ticker.C: WriteMessage(websocket.PingMessage, nil); an error
\* returns from the loop.
WrPing(c) ==
    /\ ~panicked
    /\ wrPc[c] = "select"
    /\ \E ok \in (IF connClosed[c] THEN {FALSE} ELSE BOOLEAN) :
        IF ok
        THEN UNCHANGED <<wrPc, connClosed, connClosers, failed, closes, closedBy>>
        ELSE /\ failed' = [failed EXCEPT ![c] = @ \/ ~connClosed[c]]
             /\ WrExit(c)
    /\ UNCHANGED <<envVars, hubVars, send, panicked, swPc, rdPc, wrMsg,
                   accepted, processed, liveAt, enq, dropped, deq,
                   attempts, written, closeFrame, unregSent,
                   regOffer, unregOffer>>
    /\ UNCHANGED <<cfgVars, timeVars, apiVars, frameVars, hubSnap>>

\* -------------------------------------------------------- broadcastAPI
\* ShouldBindJSON: on error respond 400 and return; otherwise build the
\* payload and reach h.Broadcast(payload).  Requests are numbered in the
\* order in which they arrive.
ApiBind(r) ==
    /\ ~panicked
    /\ hubPc # "new"
    /\ apiPc[r] = "new"
    /\ \A q \in Requests : q < r => apiPc[q] # "new"
    /\ \E body \in Bodies :
        /\ apiReq' = [apiReq EXCEPT ![r] = body]
        /\ IF BindFails(body)
           THEN /\ apiPc' = [apiPc EXCEPT ![r] = "bad"]
                /\ UNCHANGED apiPayload
           ELSE /\ apiPc' = [apiPc EXCEPT ![r] = "broadcast"]
                /\ apiPayload' = [apiPayload EXCEPT ![r] =
                                     Envelope(BoundMessage(body), now)]
    /\ UNCHANGED <<hubVars, chanVars, connVars, envVars, histVars,
                   cfgVars, timeVars, apiCalls, frameVars, hubSnap>>

\* h.Broadcast(payload), then respond 200.
ApiBroadcast(r) ==
    /\ ~panicked
    /\ apiPc[r] = "broadcast"
    /\ Len(broadcast) < bcastCap
    /\ broadcast' = Append(broadcast, accepted + 1)
    /\ accepted' = accepted + 1
    /\ content' = Append(content, apiPayload[r])
    /\ apiCalls' = [apiCalls EXCEPT ![r] = @ + 1]
    /\ apiPc' = [apiPc EXCEPT ![r] = "ok"]
    /\ UNCHANGED <<clients, hubPc, hubMsg, hubTodo, hubCur, chanVars, connVars,
                   envVars,
                   processed, liveAt, enq, dropped, deq, attempts,
                   written, closeFrame, failed, unregSent, closedBy, connClosers,
                   regOffer, unregOffer>>
    /\ UNCHANGED <<cfgVars, timeVars, apiReq, apiPayload, rdMsg, rejected, hubSnap>>

\* ------------------------------------------------------- specification
Next ==
    \/ \E c \in Clients : HubRegister(c)
    \/ \E c \in Clients : HubUnregister(c)
    \/ HubRecvBroadcast
    \/ \E c \in Clients : HubTrySend(c)
    \/ HubDropOldest
    \/ HubRetry
    \/ HubBroadcast
    \/ \E c \in Clients : ServeWsUpgrade(c)
    \/ \E c \in Clients : ServeWsSpawn(c)
    \/ \E c \in Clients : RdStart(c)
    \/ \E c \in Clients : RdReadMsg(c)
    \/ \E c \in Clients : RdReadErr(c)
    \/ \E c \in Clients : RdForward(c)
    \/ \E c \in Clients : RdClose(c)
    \/ \E c \in Clients : WrRecv(c)
    \/ \E c \in Clients : WrWrite(c)
    \/ \E c \in Clients : WrPing(c)

Spec == Init /\ [][Next]_vars

\* One connection and a burst of SendCap + 2 payloads: enough broadcasts to
\* overrun a queue of capacity SendCap whose writePump does not run.
InitBurst ==
    /\ InitProgram
    /\ InitConfig
    /\ arrivals = 1
    /\ budget = SendCap + 2
    /\ strays = 0

SpecBurst == InitBurst /\ [][Next]_vars

\* The program together with further senders on h.unregister.
InitUnreg ==
    /\ InitProgram
    /\ InitConfig
    /\ arrivals = NumClients
    /\ budget = UnregMsgs
    /\ strays = MaxStrays

NextUnreg ==
    \/ Next
    \/ \E c \in Clients : HubUnregisterAny(c)

SpecUnreg == InitUnreg /\ [][NextUnreg]_vars

\* The program with its administrative endpoint.
InitApi ==
    /\ InitProgram
    /\ InitConfig
    /\ arrivals = ApiClients
    /\ budget = ApiMsgs
    /\ strays = 0

NextApi ==
    \/ Next
    \/ \E r \in Requests : ApiBind(r)
    \/ \E r \in Requests : ApiBroadcast(r)

SpecApi == InitApi /\ [][NextApi]_vars

\* The program with peers that mark the frames they send.
RelayOpts == [SendCap |-> RelaySendCap, MaxMessageSize |-> MaxMessageSize]

InitRelay ==
    /\ InitProgram
    /\ Constructed(RelayOpts, BroadcastCap, TRUE)
    /\ arrivals = NumClients
    /\ budget = RelayMsgs
    /\ strays = 0

SpecRelay == InitRelay /\ [][Next]_vars

\* The program from before NewHub, for every argument NewHub may be given.
OptsInputs ==
    {NilOptions} \cup [SendCap : -1..MaxOpt, MaxMessageSize : -1..MaxOpt]

InitOpts ==
    /\ InitProgram
    /\ hubPc = "new"
    /\ optsIn \in OptsInputs
    /\ opts = ZeroOptions
    /\ bcastCap = 0
    /\ marking = FALSE
    /\ arrivals = 1
    /\ budget = OptsMsgs
    /\ strays = 0

NextOpts ==
    \/ NewHub
    \/ Next

SpecOpts == InitOpts /\ [][NextOpts]_vars

\* Scheduling.  Every goroutine that can take a step eventually takes one:
\* the hub's non-blocking steps, a pump's channel operation that is ready,
\* WriteMessage (bounded by writeWait), ReadMessage on a connection that was
\* closed locally.  Go's select chooses among ready cases at random, so a
\* register or unregister case that is ready again and again is eventually
\* chosen.  Nothing forces a peer to send, a transport to fail, a request to
\* arrive or the ticker's ping to be preferred.
InitFair ==
    /\ InitProgram
    /\ InitConfig
    /\ arrivals = FairClients
    /\ budget = FairMsgs
    /\ strays = 0

Fairness ==
    /\ WF_vars(HubRecvBroadcast)
    /\ WF_vars(\E c \in Clients : HubTrySend(c))
    /\ WF_vars(HubDropOldest)
    /\ WF_vars(HubRetry)
    /\ \A c \in Clients :
        /\ SF_vars(HubRegister(c))
        /\ SF_vars(HubUnregister(c))
        /\ WF_vars(ServeWsSpawn(c))
        /\ WF_vars(RdStart(c))
        /\ WF_vars(connClosed[c] /\ RdReadErr(c))
        /\ WF_vars(RdForward(c))
        /\ WF_vars(RdClose(c))
        /\ WF_vars(WrRecv(c))
        /\ WF_vars(WrWrite(c))

FairSpec == InitFair /\ [][Next]_vars /\ Fairness

\* The program with time: the clock, the peers' pongs and the read deadline,
\* under the same scheduling; a ReadMessage whose deadline has passed returns.
InitTime ==
    /\ InitProgram
    /\ Constructed(MainOpts, BroadcastCap, TRUE)
    /\ arrivals = 1
    /\ budget = TimeMsgs
    /\ strays = 0

NextTime ==
    \/ Next
    \/ Tick
    \/ \E c \in Clients : RdPong(c)
    \/ \E c \in Clients : RdReadTimeout(c)

FairTime ==
    /\ InitTime
    /\ [][NextTime]_vars
    /\ Fairness
    /\ \A c \in Clients : WF_vars(RdReadTimeout(c))

\* The program with a broadcast channel small enough to fill up, under the
\* same scheduling; a request handler that can complete its send does.
InitIntake ==
    /\ InitProgram
    /\ Constructed(MainOpts, IntakeCap, FALSE)
    /\ arrivals = 1
    /\ budget = IntakeMsgs
    /\ strays = 0

FairIntake ==
    /\ InitIntake
    /\ [][NextApi]_vars
    /\ Fairness
    /\ \A r \in Requests : WF_vars(ApiBroadcast(r))

\* ------------------------------------------------------------- claims

\* ---- vocabulary of the claims
\* Connection c was registered with the hub at some time.
WasRegistered(c) == swPc[c] \in {"spawn", "done"}

\* The number of broadcasts Hub.Run has finished handling for c: those
\* received while c was in the live set, less the one in progress if the
\* range loop has not finished c's iteration yet.
Handled(c) ==
    Cardinality({i \in 1..Len(liveAt) : c \in liveAt[i]})
        - (IF hubPc # "select" /\ c \in hubTodo THEN 1 ELSE 0)

\* The number of copies of p in the sequence s.
Count(s, p) == Cardinality({i \in 1..Len(s) : s[i] = p})

\* s is strictly increasing: payload numbers are acceptance order.
Increasing(s) == \A i, j \in 1..Len(s) : i < j => s[i] < s[j]

\* s can be obtained from t by deleting elements (order kept).
RECURSIVE IsSubSeq(_, _)
IsSubSeq(s, t) ==
    IF s = <<>> THEN TRUE
    ELSE IF t = <<>> THEN FALSE
    ELSE IF Head(s) = Head(t) THEN IsSubSeq(Tail(s), Tail(t))
    ELSE IsSubSeq(s, Tail(t))

\* s is a prefix of t.
IsPrefix(s, t) == Len(s) <= Len(t) /\ SubSeq(t, 1, Len(s)) = s

\* C1: Backpressure eviction.  A registered connection whose writePump is
\* running but has never dequeued, and for which Hub.Run has handled more
\* than SendCap + 1 broadcasts, is out of the live set and its queue was
\* closed exactly once.
C1_BackpressureEviction ==
    \A c \in Clients :
        (WasRegistered(c) /\ wrPc[c] = "select" /\ deq[c] = <<>>
            /\ Handled(c) > SendCap + 1)
            => (c \notin clients /\ closes[c] = 1)

\* C2: Per-connection ordering.  On every connection the payloads are
\* enqueued, and the frames written, in the order in which the payloads were
\* placed on the broadcast channel, and the frames written are an
\* order-preserving subsequence of the broadcasts processed by Hub.Run.
C2_PerConnectionOrder ==
    \A c \in Clients :
        /\ Increasing(enq[c])
        /\ Increasing(written[c])
        /\ IsSubSeq(enq[c], processed)
        /\ IsSubSeq(written[c], enq[c])

\* C2 witness: a connection has written two frames after an older payload
\* was discarded from its queue, and the other connection has written too.
C2_Witness ==
    \E c, d \in Clients :
        /\ c # d
        /\ Len(written[c]) >= 2
        /\ dropped[c] # {}
        /\ Len(written[d]) >= 1


\* ---- C3
\* The i-th broadcast processed is no longer being fanned out to c.
FanOutDone(i, c) ==
    ~(i = Len(processed) /\ hubPc # "select" /\ c \in hubTodo)

\* Every processed payload was appended exactly once to the queue of every
\* connection that was live when Hub.Run received it, and never to the queue
\* of any other connection.
FanOutExact ==
    \A i \in 1..Len(processed) : \A c \in Clients :
        Count(enq[c], processed[i]) =
            (IF c \in liveAt[i] /\ FanOutDone(i, c) THEN 1 ELSE 0)

\* Payload p, enqueued on c.send, is still on its way to the peer.
InPipeline(c, p) == p \in Range(send[c]) \/ wrMsg[c] = p

\* No connection writes the same payload twice.
WrittenAtMostOnce ==
    \A c \in Clients : \A p \in Range(written[c]) : Count(written[c], p) = 1

\* C3 as stated: fan-out without loss or duplication.  Every processed
\* payload is appended exactly once to the queue of every live connection and
\* to no other queue, and unless the connection's transport fails every
\* payload appended is written exactly once: it is on its way to the peer
\* (in c.send or in the writePump's hands) until it has been written.
C3_FanOutEveryFrameWritten ==
    /\ FanOutExact
    /\ WrittenAtMostOnce
    /\ \A c \in Clients : \A p \in Range(enq[c]) :
        InPipeline(c, p) \/ p \in Range(written[c]) \/ failed[c]

\* C3 amended: as above, except that a payload may leave c.send unwritten
\* when a later broadcast finds the queue full and discards it as the oldest.
C3_FanOutUnlessDropped ==
    /\ FanOutExact
    /\ WrittenAtMostOnce
    /\ \A c \in Clients : \A p \in Range(enq[c]) :
        InPipeline(c, p) \/ p \in Range(written[c]) \/ failed[c]
            \/ p \in dropped[c]

\* C3 witness: the first payload was received by Hub.Run while every
\* connection was live with an empty queue, and every connection has written
\* it; later one connection lost a payload to the drop-oldest step.
C3_Witness ==
    /\ Len(processed) >= 1
    /\ liveAt[1] = Clients
    /\ \A c \in Clients : written[c] # <<>> /\ written[c][1] = processed[1]
    /\ \E c \in Clients : dropped[c] # {} /\ ~failed[c]

\* ---- C4
\* C4: the hub is never blocked by a consumer.  Whatever it is handling,
\* Hub.Run returns to waiting on its intake channels; every payload placed on
\* the broadcast channel is eventually received by Hub.Run; a readPump
\* blocked on the broadcast or the unregister channel is eventually released.
C4_HubNeverBlocked ==
    /\ (hubPc # "select") ~> (hubPc = "select")
    /\ \A n \in 1..FairMsgs : (accepted >= n) ~> (Len(processed) >= n)
    /\ \A c \in Clients : (rdPc[c] = "unreg") ~> (rdPc[c] = "close")
    /\ \A c \in Clients : (rdPc[c] = "forward") ~> (rdPc[c] = "read")

\* C4 witness: the hub is in the backpressure branch for a connection whose
\* queue is full and whose writePump has terminated, while a readPump is
\* blocked on the unregister channel.
C4_Witness ==
    /\ hubPc = "drop"
    /\ Len(send[hubCur]) = SendCap
    /\ wrPc[hubCur] = "done"
    /\ rdPc[hubCur] = "unreg"

\* ---- C5
\* This step is Hub.Run closing c.send: in the unregister case for c, or in
\* the backpressure branch of c's range iteration.
HubClosesStep(c) ==
    \/ hubPc = "select" /\ unregSent'[c] = unregSent[c] + 1
    \/ hubPc = "retry" /\ hubCur = c

\* C5: a connection's queue is closed at most once, and only by Hub.Run:
\* every step that closes c.send is a step of Hub.Run and finds it open.
C5_ClosedAtMostOnceByHub ==
    [][\A c \in Clients :
        closes'[c] # closes[c] =>
            (closes[c] = 0 /\ closes'[c] = 1 /\ HubClosesStep(c))]_vars

\* C5 witness: a connection was removed from the live set with its queue
\* closed, and a later Unregister from its readPump was processed.
C5_Witness ==
    \E c \in Clients :
        /\ unregSent[c] = 2
        /\ closes[c] = 1
        /\ rdPc[c] = "done"

\* ---- C6
\* C6: idempotent unregister.  A step that processes Unregister(c) removes
\* exactly c and closes c.send when c is in the live set; otherwise it leaves
\* the live set and every queue as they are; it never touches the queue
\* contents, nor the membership or queue of another connection, and never
\* panics.
C6_IdempotentUnregister ==
    [][\A c \in Clients :
        unregSent'[c] # unregSent[c] =>
            /\ IF c \in clients
               THEN clients' = clients \ {c} /\ closes'[c] = closes[c] + 1
               ELSE clients' = clients /\ closes'[c] = closes[c]
            /\ send' = send
            /\ \A d \in Clients \ {c} : closes'[d] = closes[d]
            /\ ~panicked']_vars

\* C6 witness: an Unregister was processed for a connection that was never
\* registered, while another connection was live with payloads queued.
C6_Witness ==
    \E c, d \in Clients :
        /\ unregSent[c] = 1
        /\ ~WasRegistered(c)
        /\ closes[c] = 0
        /\ d \in clients
        /\ send[d] # <<>>

\* ---- C7
\* Teardown of connection c is complete.
TornDown(c) ==
    /\ rdPc[c] = "done"
    /\ wrPc[c] = "done"
    /\ connClosed[c]
    /\ c \notin clients
    /\ IsClosed(c)

\* Teardown of connection c has begun.
TeardownBegun(c) ==
    \/ rdPc[c] \in {"unreg", "close", "done"}
    \/ wrPc[c] = "done"
    \/ IsClosed(c)

\* C7: once a loop of a registered connection has terminated, or the hub has
\* closed its queue, then eventually both loops have terminated, the
\* transport is closed, the connection is out of the live set and its queue
\* is closed.
C7_TeardownConverges ==
    \A c \in Clients : TeardownBegun(c) ~> TornDown(c)


\* C7 witness: the writePump failed first, with payloads still queued; the
\* readPump then terminated, the hub unregistered the connection and the
\* teardown completed.
C7_Witness ==
    \E c \in Clients :
        /\ TornDown(c)
        /\ ~closeFrame[c]
        /\ send[c] # <<>>
        /\ written[c] # <<>>

\* ---- C8
\* C8: the readPump's Unregister is accepted by the hub exactly once, when
\* the loop has ended and before the readPump closes the transport; nothing
\* else submits Unregister(c), so a registered connection is out of the live
\* set only after its readPump has terminated and its Unregister was accepted.
C8_ReadPumpUnregistersOnce ==
    \A c \in Clients :
        /\ unregSent[c] <= 1
        /\ (rdPc[c] \in {"close", "done"}) <=> (unregSent[c] = 1)
        /\ ("read" \in connClosers[c]) => (unregSent[c] = 1)
        /\ (rdPc[c] = "done") => ("read" \in connClosers[c])
        /\ (WasRegistered(c) /\ c \notin clients) => (rdPc[c] \in {"close", "done"})

\* C8 witness: the writePump failed and closed the transport while the
\* connection stayed in the live set; the readPump then ended, unregistered
\* and closed the transport.
C8_Witness ==
    \E c \in Clients :
        /\ connClosers[c] = {"read", "write"}
        /\ ~closeFrame[c]
        /\ rdPc[c] = "done"
        /\ c \notin clients

\* ---- C9
\* What the writePump holds between its receive and its write.
InHand(c) == IF wrMsg[c] = NoMsg THEN <<>> ELSE <<wrMsg[c]>>

\* C9: write loop protocol.  Every payload dequeued is handed to the
\* transport as one data frame, in order; a failed write ends the loop; the
\* close frame is sent only when c.send is closed and drained, and ends the
\* loop; a terminated writePump has closed the transport.
C9_WriteLoopProtocol ==
    \A c \in Clients :
        /\ deq[c] = attempts[c] \o InHand(c)
        /\ (wrMsg[c] # NoMsg) <=> (wrPc[c] = "write")
        /\ IsPrefix(written[c], attempts[c])
        /\ Len(attempts[c]) <= Len(written[c]) + 1
        /\ (Len(attempts[c]) > Len(written[c])) => (wrPc[c] = "done" /\ ~closeFrame[c])
        /\ closeFrame[c] =>
            /\ IsClosed(c)
            /\ send[c] = <<>>
            /\ wrPc[c] = "done"
            /\ Range(enq[c]) \subseteq (Range(deq[c]) \cup dropped[c])
        /\ (wrPc[c] = "done") => (connClosed[c] /\ "write" \in connClosers[c])

\* C9 witness: one writePump wrote two frames and ended with the close
\* frame; another ended on a failed write.
C9_Witness ==
    \E c, d \in Clients :
        /\ closeFrame[c]
        /\ Len(written[c]) >= 2
        /\ wrPc[d] = "done"
        /\ Len(attempts[d]) > Len(written[d])

\* ---- C10
\* C10 as stated: events are applied in arrival order across the intake
\* channels.  When Hub.Run applies Register(c) or Unregister(c), no payload
\* that was already in the broadcast channel when that event was offered is
\* still waiting there.
C10_ArrivalOrder ==
    [][\A c \in Clients :
        /\ (swPc[c] = "register" /\ swPc'[c] = "spawn")
            => (regOffer[c] \notin Range(broadcast))
        /\ (rdPc[c] = "unreg" /\ rdPc'[c] = "close")
            => (unregOffer[c] \notin Range(broadcast))]_vars

\* C10 amended: payloads are applied in the order in which the broadcast
\* channel accepted them (the k-th payload processed is the k-th accepted,
\* and the channel holds the following ones in order); nothing orders them
\* against register and unregister events.
C10_BroadcastFifo ==
    /\ \A i \in 1..Len(processed) : processed[i] = i
    /\ \A i \in 1..Len(broadcast) : broadcast[i] = Len(processed) + i
    /\ accepted = Len(processed) + Len(broadcast)

\* C10 witness: Hub.Run has processed a payload and is waiting on its
\* channels with two payloads pending, both accepted before the Register now
\* on offer.
C10_Witness ==
    \E c \in Clients :
        /\ hubPc = "select"
        /\ swPc[c] = "register"
        /\ Len(processed) >= 1
        /\ Len(broadcast) >= 2
        /\ regOffer[c] = broadcast[Len(broadcast)]

\* ---- C11
\* The keys of a marshalled JSON object and the value under a key.
Keys(b) == {b[i][1] : i \in DOMAIN b}
Field(b, k) == b[CHOOSE i \in DOMAIN b : b[i][1] = k][2]

\* The request body has a message field / a non-empty one.
HasMessage(body) == body.json /\ \E kv \in body.obj : kv[1] = "message"
HasNonEmptyMessage(body) ==
    body.json /\ \E kv \in body.obj : kv[1] = "message" /\ kv[2] # ""

\* b is an envelope with exactly the fields type, message and time, carrying
\* the message of the request body.
IsEnvelopeOf(b, body) ==
    /\ b.kind = "json"
    /\ Len(b.fields) = 3
    /\ Keys(b.fields) = {"type", "message", "time"}
    /\ Field(b.fields, "type") = "server_broadcast"
    /\ \E kv \in body.obj : kv[1] = "message" /\ kv[2] = Field(b.fields, "message")
    /\ Field(b.fields, "time") \in {FormatRFC3339(t) : t \in 0..MaxTicks}

\* The payloads on the broadcast channel, so far, that are JSON envelopes.
EnvelopesSent == {p \in 1..Len(content) : content[p].kind = "json"}

\* The number of Hub.Broadcast calls made by all requests.
RECURSIVE SumCalls(_)
SumCalls(rs) ==
    IF rs = {} THEN 0
    ELSE LET r == CHOOSE x \in rs : TRUE IN apiCalls[r] + SumCalls(rs \ {r})

\* C11: a request with a non-empty message makes exactly one call of
\* Hub.Broadcast, with an envelope of exactly type = "server_broadcast",
\* message = the submitted message and time = a timestamp, and is then
\* answered with success; every connection live when Hub.Run handles the
\* envelope is enqueued it.  A request without a message field is answered
\* with a client error, places nothing on the broadcast channel and leaves
\* the hub and every queue as they were.
C11_AdminEndpoint ==
    /\ [](\A r \in Requests :
            /\ (apiPc[r] # "new" /\ HasNonEmptyMessage(apiReq[r]))
                 => (/\ apiPc[r] \in {"broadcast", "ok"}
                     /\ IsEnvelopeOf(apiPayload[r], apiReq[r]))
            /\ (apiPc[r] # "new" /\ ~HasMessage(apiReq[r])) => (apiPc[r] = "bad")
            /\ apiCalls[r] = (IF apiPc[r] = "ok" THEN 1 ELSE 0))
    /\ [](/\ Cardinality(EnvelopesSent) = SumCalls(Requests)
          /\ \A p \in EnvelopesSent :
                \E r \in Requests : apiPc[r] = "ok" /\ content[p] = apiPayload[r]
          /\ \A i \in 1..Len(processed) : \A c \in liveAt[i] :
                (processed[i] \in EnvelopesSent /\ FanOutDone(i, c))
                    => (Count(enq[c], processed[i]) = 1))
    /\ [][\A r \in Requests :
            /\ (apiPc[r] = "new" /\ apiPc'[r] = "bad")
                 => UNCHANGED <<hubVars, chanVars, accepted, content, enq>>
            /\ (apiPc'[r] = "ok" /\ apiPc[r] # "ok")
                 => (/\ apiPc[r] = "broadcast"
                     /\ broadcast' = Append(broadcast, accepted')
                     /\ content'[accepted'] = apiPayload[r])]_vars

\* C11 witness: one request without a message field was answered with a
\* client error; another, with a message, was answered with success and its
\* envelope has been written to a peer by a live connection.
C11_Witness ==
    \E r, q \in Requests : \E c \in Clients : \E p \in EnvelopesSent :
        /\ apiPc[r] = "bad" /\ apiReq[r].json /\ ~HasMessage(apiReq[r])
        /\ apiPc[q] = "ok"
        /\ content[p] = apiPayload[q]
        /\ p \in Range(written[c])
        /\ c \in clients

\* ---- C12
\* A sender is at its send on the broadcast channel.
RdSending(c) == rdPc[c] = "forward"
ApiSending(r) == apiPc[r] = "broadcast"

\* C12: bounded broadcast intake.  The payloads pending in the broadcast
\* channel never exceed its capacity, which is fixed; a send on it (by
\* Hub.Broadcast or by a readPump) can complete exactly when fewer payloads
\* than the capacity are pending; a receive by Hub.Run takes one payload
\* out, and a sender blocked on the full channel is eventually released.
C12_BoundedIntake ==
    /\ [](Len(broadcast) <= bcastCap)
    /\ [][bcastCap' = bcastCap]_vars
    /\ [](\A c \in Clients :
            RdSending(c) => (ENABLED RdForward(c) <=> Len(broadcast) < bcastCap))
    /\ [](\A r \in Requests :
            ApiSending(r) => (ENABLED ApiBroadcast(r) <=> Len(broadcast) < bcastCap))
    /\ [](budget > 0 => (ENABLED HubBroadcast <=> Len(broadcast) < bcastCap))
    /\ [][Len(processed') > Len(processed)
            => Len(broadcast') = Len(broadcast) - 1]_vars
    /\ \A c \in Clients :
            (RdSending(c) /\ Len(broadcast) = bcastCap) ~> ~RdSending(c)
    /\ \A r \in Requests :
            (ApiSending(r) /\ Len(broadcast) = bcastCap) ~> (apiPc[r] = "ok")

\* C12 witness: the broadcast channel is full while a readPump and a request
\* handler are both blocked on it.
C12_Witness ==
    \E c \in Clients : \E r \in Requests :
        /\ Len(broadcast) = bcastCap
        /\ RdSending(c)
        /\ ApiSending(r)

\* ---- C13
\* The read loop of c is running.
ReadLoopRunning(c) == rdPc[c] \in {"read", "forward"}

\* C13: liveness timeout.  The read deadline is set to pongWait after the
\* start of the read loop and only a pong moves it (data frames and
\* broadcasts do not); no message is read once it has passed; and a
\* connection whose read loop is running past its deadline is eventually
\* unregistered with its transport closed and both loops ended.
C13_LivenessTimeout ==
    /\ [][\A c \in Clients :
            deadline'[c] # deadline[c] =>
                /\ deadline'[c] = now + PongWait
                /\ rdPc[c] = "start" \/ (ponged'[c] /\ rdPc[c] = "read")]_vars
    /\ [][\A c \in Clients :
            (rdPc[c] = "read" /\ rdPc'[c] = "forward") => now < deadline[c]]_vars
    /\ [](\A c \in Clients : timedOut[c] => now >= deadline[c])
    /\ \A c \in Clients :
            (ReadLoopRunning(c) /\ now >= deadline[c]) ~> TornDown(c)

\* C13 witness: a peer that never sent a pong kept sending data frames and
\* was being delivered broadcasts; its read loop ended on the read deadline,
\* pongWait after its start, and the connection was torn down.
C13_Witness ==
    \E c \in Clients :
        /\ timedOut[c]
        /\ ~ponged[c]
        /\ deadline[c] = PongWait
        /\ TornDown(c)
        /\ Forwarded(c) >= 1
        /\ written[c] # <<>>

\* ---- C14
\* Connection d is untouched by this step: its membership, queue and loops.
Untouched(d) ==
    /\ (d \in clients') <=> (d \in clients)
    /\ closes'[d] = closes[d]
    /\ send'[d] = send[d]
    /\ rdPc'[d] = rdPc[d]
    /\ wrPc'[d] = wrPc[d]
    /\ connClosed'[d] = connClosed[d]

\* C14: frame-size bound and isolation.  A frame of at most MaxMessageSize
\* bytes read by c's readPump is forwarded as one broadcast; a larger frame
\* ends c's read loop, on the way to Unregister(c), without being forwarded;
\* that step, and the Unregister(c) that follows, leave every other
\* connection as it was: in the live set, queue open, queue contents
\* unchanged, loops running.
C14_FrameSizeIsolation ==
    /\ [](\A c \in Clients :
            /\ rejected[c] # 0 =>
                (rejected[c] > opts.MaxMessageSize
                     /\ rdPc[c] \in {"unreg", "close", "done"})
            /\ (rdPc[c] = "forward") <=> (rdMsg[c] # NoFrame)
            /\ rdMsg[c] # NoFrame =>
                (rdMsg[c].size \in 1..opts.MaxMessageSize /\ rdMsg[c].peer = c))
    /\ [](\A p \in 1..Len(content) :
            content[p].peer # 0 => content[p].size \in 1..opts.MaxMessageSize)
    /\ [][\A c \in Clients :
            /\ (rdPc[c] = "forward" /\ rdPc'[c] # "forward")
                 => (/\ broadcast' = Append(broadcast, accepted')
                     /\ accepted' = accepted + 1
                     /\ content' = Append(content, rdMsg[c]))
            /\ (rejected'[c] # rejected[c])
                 => (/\ rdPc[c] = "read" /\ rdPc'[c] = "unreg"
                     /\ UNCHANGED <<broadcast, accepted, content, hubVars>>
                     /\ \A d \in Clients \ {c} : Untouched(d))
            /\ (unregSent'[c] # unregSent[c])
                 => (\A d \in Clients \ {c} : Untouched(d))]_vars

\* C14 witness: one connection's read loop ended on a frame over the limit
\* and the connection was unregistered, while the other connection, which
\* forwarded a frame of exactly MaxMessageSize bytes, is live with its queue
\* open and not empty and both its loops running.
C14_Witness ==
    \E c, d \in Clients :
        /\ c # d
        /\ rejected[c] = MaxMessageSize + 1
        /\ rdPc[c] = "done"
        /\ c \notin clients
        /\ d \in clients /\ ~IsClosed(d) /\ send[d] # <<>>
        /\ rdPc[d] = "read" /\ wrPc[d] = "select"
        /\ \E p \in 1..Len(content) :
              content[p].peer = d /\ content[p].size = MaxMessageSize

\* ---- C15
\* NewHub was given nil options.
NilGiven == optsIn = NilOptions

\* C15: configuration defaults.  After NewHub, the effective SendCap is 128
\* when the options are nil or give SendCap <= 0, and the value given
\* otherwise; likewise MaxMessageSize with 8192; so the effective SendCap is
\* at least 1, and it is the capacity of every connection's queue: the hub
\* enqueues on a queue exactly when it holds fewer payloads than that, and
\* finds it full exactly when it holds that many.
C15_ConfigDefaults ==
    /\ [](hubPc # "new" =>
            /\ (NilGiven \/ optsIn.SendCap <= 0) => opts.SendCap = 128
            /\ (~NilGiven /\ optsIn.SendCap > 0) => opts.SendCap = optsIn.SendCap
            /\ (NilGiven \/ optsIn.MaxMessageSize <= 0) => opts.MaxMessageSize = 8192
            /\ (~NilGiven /\ optsIn.MaxMessageSize > 0)
                 => opts.MaxMessageSize = optsIn.MaxMessageSize
            /\ opts.SendCap >= 1
            /\ opts.MaxMessageSize >= 1
            /\ \A c \in Clients : Len(send[c]) <= opts.SendCap)
    /\ [][\A c \in Clients :
            /\ enq'[c] # enq[c] => Len(send[c]) < opts.SendCap
            /\ (hubPc = "range" /\ hubPc' = "drop" /\ hubCur' = c)
                 => Len(send[c]) = opts.SendCap]_vars
    /\ [][hubPc # "new" => opts' = opts]_vars

\* C15 witness: NewHub was given SendCap = 0 and a positive MaxMessageSize;
\* the hub runs with SendCap 128 and the MaxMessageSize given, and a
\* connection's queue holds more payloads than any SendCap that was given.
C15_Witness ==
    /\ hubPc # "new"
    /\ ~NilGiven
    /\ optsIn.SendCap = 0
    /\ optsIn.MaxMessageSize = MaxOpt
    /\ opts = [SendCap |-> 128, MaxMessageSize |-> MaxOpt]
    /\ \E c \in Clients : Len(send[c]) > MaxOpt

\* ---- C16
\* The writePump of the connection being handled has not dequeued since the
\* hub found its queue full.
NoDequeueSince == Len(deq[hubCur]) = hubSnap.deqLen

\* The number of broadcasts Hub.Run received while c was in the live set.
Received(c) == Cardinality({i \in 1..Len(liveAt) : c \in liveAt[i]})

\* C16: drop-oldest step.  The hub enters the backpressure branch for c
\* exactly on a full queue [m1, ..., mN]; its non-blocking dequeue discards
\* the head of the queue, or nothing when the queue is empty; if the
\* writePump did not dequeue meanwhile, what was discarded is m1 and the
\* retry leaves [m2, ..., mN, p] with c still in the live set; at most one
\* payload is discarded per connection per broadcast.
C16_DropOldest ==
    /\ [](hubPc \in {"drop", "retry"} =>
            /\ hubSnap.c = hubCur
            /\ hubCur \in clients
            /\ Len(hubSnap.q) = opts.SendCap)
    /\ [](\A c \in Clients :
            Cardinality(dropped[c]) <= Received(c) /\ dropped[c] \subseteq Range(enq[c]))
    /\ [][\A c \in Clients :
            dropped'[c] # dropped[c] =>
                /\ hubPc = "drop" /\ hubCur = c /\ hubPc' = "retry"
                /\ send[c] # <<>>
                /\ dropped'[c] = dropped[c] \cup {Head(send[c])}
                /\ send'[c] = Tail(send[c])]_vars
    /\ [][(hubPc = "drop" /\ hubPc' = "retry") =>
                /\ send[hubCur] = <<>> => UNCHANGED <<send, dropped>>
                /\ (NoDequeueSince /\ \A c \in Clients : deq'[c] = deq[c]) =>
                      /\ send'[hubCur] = Tail(hubSnap.q)
                      /\ dropped'[hubCur] = dropped[hubCur] \cup {Head(hubSnap.q)}]_vars
    /\ [][(hubPc = "retry" /\ hubPc' # "retry" /\ NoDequeueSince) =>
                /\ send'[hubCur] = Tail(hubSnap.q) \o <<hubMsg>>
                /\ hubCur \in clients'
                /\ closes'[hubCur] = closes[hubCur]]_vars

\* C16 witness: for one connection, whose writePump never dequeued, the hub
\* discarded the oldest payload and the queue holds the following ones and
\* the new one; for another it is at the non-blocking dequeue and finds the
\* queue drained by the writePump.
C16_Witness ==
    \E c, d \in Clients :
        /\ c # d
        /\ deq[c] = <<>>
        /\ Len(enq[c]) = opts.SendCap + 1
        /\ dropped[c] = {Head(enq[c])}
        /\ send[c] = Tail(enq[c])
        /\ c \in clients
        /\ hubPc = "drop" /\ hubCur = d
        /\ send[d] = <<>>

\* ---- C17
\* The payloads on the broadcast channel, so far, that came from c's peer,
\* in the order in which they were placed there.
FromPeer(c) == SelectSeq(content, LAMBDA b : b.peer = c)

\* C17: relay to all peers including the sender.  Every message returned
\* to c's readPump is placed on the broadcast channel exactly once and
\* unmodified (the k-th payload from c is the k-th message c read; payloads
\* on the channel do not change); and when Hub.Run has handled it, it has
\* been enqueued once on every connection that was in the live set when
\* Hub.Run received it, c itself included.
C17_RelayIncludingSender ==
    /\ [](\A c \in Clients :
            /\ \A k \in 1..Len(FromPeer(c)) : FromPeer(c)[k].seq = k
            /\ rdMsg[c] # NoFrame =>
                  (rdMsg[c].peer = c /\ rdMsg[c].seq = Len(FromPeer(c)) + 1))
    /\ [][\A c \in Clients :
            (rdPc[c] = "forward" /\ rdPc'[c] # "forward")
                => (/\ content' = Append(content, rdMsg[c])
                    /\ broadcast' = Append(broadcast, Len(content')))]_vars
    /\ [][IsPrefix(content, content')]_vars
    /\ [](\A i \in 1..Len(processed) : \A d \in liveAt[i] :
            (content[processed[i]].peer # 0 /\ FanOutDone(i, d))
                => Count(enq[d], processed[i]) = 1)

\* C17 witness: a message read from c's peer was handled by Hub.Run while c
\* and another connection were live, and both have written it to their
\* peers.
C17_Witness ==
    \E c, d \in Clients : \E i \in 1..Len(processed) :
        /\ c # d
        /\ content[processed[i]].peer = c
        /\ {c, d} \subseteq liveAt[i]
        /\ processed[i] \in Range(written[c])
        /\ processed[i] \in Range(written[d])

\* ---- C18
\* C18: every connection in the live set has an open queue and every
\* connection with a closed queue is out of the live set, also for the
\* connections the range loop has still to visit and the one it is handling;
\* so Hub.Run never sends on, or closes, a closed queue.
C18_LiveSetQueuesOpen ==
    /\ ~panicked
    /\ \A c \in clients : ~IsClosed(c) /\ closedBy[c] = <<>>
    /\ \A c \in Clients : IsClosed(c) => c \notin clients
    /\ hubPc # "select" => hubTodo \subseteq clients
    /\ hubPc \in {"drop", "retry"} => (hubCur \in clients /\ hubCur \in hubTodo)

\* C18 witness: one connection was unregistered and its queue closed with
\* payloads still in it, while Hub.Run is in the range loop of a later
\* broadcast, handling the other connection, whose queue is full.
C18_Witness ==
    \E c \in Clients :
        /\ IsClosed(c)
        /\ send[c] # <<>>
        /\ c \in liveAt[1]
        /\ hubPc = "drop"
        /\ hubCur # c

\* ---- C19
\* A loop of c has started.
LoopStarted(c) == rdPc[c] # "off" \/ wrPc[c] # "off"

\* C19: registration happens before the loops.  Register(c) has been
\* accepted by the hub before either loop of c starts, hence before any
\* Unregister(c) is processed; c enters the live set only by that Register,
\* which happens once; once its Unregister has been processed c is out of
\* the live set for good.
C19_RegisterBeforeLoops ==
    /\ [](\A c \in Clients :
            /\ LoopStarted(c) => WasRegistered(c)
            /\ unregSent[c] > 0 => (WasRegistered(c) /\ c \notin clients)
            /\ c \in clients => WasRegistered(c)
            /\ swPc[c] \in {"idle", "register", "rejected"} => c \notin clients)
    /\ [][\A c \in Clients :
            /\ (c \in clients' /\ c \notin clients)
                 => (/\ swPc[c] = "register" /\ swPc'[c] = "spawn"
                     /\ ~LoopStarted(c)
                     /\ unregSent[c] = 0)
            /\ WasRegistered(c) => WasRegistered(c)']_vars

\* C19 witness: a connection was registered, ran its loops, wrote a frame
\* and was unregistered, and is out of the live set while the hub goes on
\* delivering to the other connection.
C19_Witness ==
    \E c, d \in Clients :
        /\ c # d
        /\ unregSent[c] = 1
        /\ rdPc[c] = "done" /\ wrPc[c] = "done"
        /\ written[c] # <<>>
        /\ d \in clients
        /\ Len(enq[d]) > Len(enq[c])

====
